---- MODULE Spec2Model ----
(***************************************************************************)
(* ApptainerRuntime (openhands/runtime/impl/apptainer/apptainer_runtime.py) *)
(* as a state machine: one runtime instance after construction, its        *)
(* connect() (split at its await points), its close(), and the supervised  *)
(* process, which may exit at any moment (Spec, FairSpec). On their own:   *)
(* the helpers _normalize_image_reference and _build_bind_args applied to  *)
(* their inputs (HelperSpec); the constructions and closes of several      *)
(* instances that share the ports of one host (PortSpec); and main() of    *)
(* evaluation/benchmarks/swe_bench/scripts/build_and_push_images.py        *)
(* (BatchSpec).                                                            *)
(***************************************************************************)
EXTENDS Integers, Sequences, FiniteSets, TLC

\* ------------------------------------------------------------------ bounds
MaxTimeout == 2      \* largest sandbox.remote_runtime_init_timeout tried
MaxCheckDur == 1     \* longest time one check_if_alive() call may take
MaxTime == 4         \* the clock stops new connect() calls past this
MaxSpawns == 2       \* processes spawned per behaviour
MaxReleaseCalls == 2 \* release() calls counted per lock
MaxImageWords == 3   \* pieces an image reference is put together from
MaxMounts == 2       \* entries of sandbox.volumes
MaxBatch == 3        \* instances selected for one run of the batch script
MaxInstances == 3    \* runtime instances constructed on one host
RangeSize == 2       \* ports of each port range

\* ------------------------------------------------------- program constants
SleepInterval == 1   \* asyncio.sleep(1)
NumAppRanges == 2    \* (APP_PORT_RANGE_1, APP_PORT_RANGE_2)

NoProcess == 0       \* self._server_process is None
NoLock == 0          \* a PortLock | None field holding None
NoError == 0         \* last_error is None

HostLock == 1
VscodeLock == 2
AppLock(i) == 2 + i
LockIds == {HostLock, VscodeLock} \cup {AppLock(i) : i \in 1..NumAppRanges}

VARIABLES
  runtime_status,      \* "NOT_STARTED" | "STARTING" | "READY"
  attach_to_existing,  \* constructor argument
  init_timeout,        \* config.sandbox.remote_runtime_init_timeout
  log_dir,             \* APPTAINER_RUNTIME_LOG_DIR is set
  server_process,      \* index into procs, or NoProcess
  procs,               \* every process spawned so far
  log_thread,          \* self._log_thread is not None
  log_file_handle,     \* self._log_file_handle is not None
  open_log_files,      \* log file handles opened and not closed
  host_port_lock, vscode_port_lock, app_port_locks,
  lock_held,           \* the cross-process lock of each PortLock is held
  release_calls,       \* PortLock.release() calls that returned, per lock
  pc,                  \* where the running connect() is; "idle" when none
  now,                 \* time.time()
  deadline, last_error,
  checks,              \* liveness checks performed by the current wait
  wait_start,          \* time at which the current wait began (now, outside one)
  exited_at_start,     \* the supervised process had exited when the
                       \* current wait began
  fully_closed,        \* a close() completed since the last connect() began
  runtime_initialized, \* self._runtime_initialized
  result,              \* the last call: what it was and how it ended
  call,                \* a helper function applied to an argument, and
                       \* what it returned
  log_records,         \* the records written with self.log / logger
  batch,               \* a run of build_and_push_images.py main()
  instances,           \* the runtime instances constructed on one host:
                       \* their ports and port locks
  lock_service,        \* the host's port locking works
  scan_start           \* where in a range the host's port searches begin

vars == <<runtime_status, attach_to_existing, init_timeout, log_dir,
          server_process, procs, log_thread, log_file_handle, open_log_files,
          host_port_lock, vscode_port_lock, app_port_locks, lock_held,
          release_calls, pc, now, deadline, last_error, checks, wait_start,
          exited_at_start, fully_closed, runtime_initialized, result,
          call, log_records, batch, instances, lock_service,
          scan_start>>

\* The variables of the helper functions checked on their own, which the
\* lifecycle of one instance leaves alone.
helper_vars == <<call, log_records>>

\* The variables of the batch script, a program of its own.
batch_vars == <<batch>>

\* The variables of the instances that share the host's ports.
port_vars == <<instances, lock_service, scan_start>>

config_vars == <<attach_to_existing, init_timeout, log_dir, helper_vars,
                 batch_vars, port_vars>>

\* The variables of the lifecycle of one instance.
lifecycle_vars ==
  <<runtime_status, attach_to_existing, init_timeout, log_dir,
    server_process, procs, log_thread, log_file_handle, open_log_files,
    host_port_lock, vscode_port_lock, app_port_locks, lock_held,
    release_calls, pc, now, deadline, last_error, checks, wait_start,
    exited_at_start, fully_closed, runtime_initialized, result>>
lock_vars == <<host_port_lock, vscode_port_lock, app_port_locks, lock_held,
               release_calls>>
proc_vars == <<server_process, procs, log_thread, log_file_handle,
               open_log_files>>
wait_vars == <<deadline, last_error, checks, wait_start, exited_at_start>>

\* How a call ended: the exception raised ("none": it returned), the
\* exception's __cause__ and the lock whose release() raised; and of the
\* readiness wait it ran, if any: the liveness checks made, the time the
\* wait took, and whether the process had exited when the wait began.
Outcome(op, exc, cause, lock) ==
  [op |-> op, exc |-> exc, cause |-> cause, lock |-> lock,
   checks |-> checks, elapsed |-> now - wait_start,
   exited_at_start |-> exited_at_start]

\* The locals of _wait_until_alive are gone once connect() has ended (and
\* wait_start follows the clock while no wait runs).
WaitLocalsDropped ==
  /\ deadline' = 0
  /\ last_error' = NoError
  /\ checks' = 0
  /\ wait_start' = now
  /\ exited_at_start' = FALSE

\* The process behind a handle has terminated (what the operating system
\* knows, whatever the program tests).
HasExited(p) == p # NoProcess /\ procs[p].state = "exited"

\* self._server_process and self._server_process.poll() is None
Running(p) == p # NoProcess /\ procs[p].state = "running"

\* The test inverted: the wait gives up on a process that is running.
Exited_Inverted(p) == p # NoProcess /\ procs[p].state = "running"

\* self._server_process and self._server_process.poll() is not None
Exited(p) == p # NoProcess /\ procs[p].state = "exited"

\* No helper function is being followed.
NoCall == [fn |-> "none", arg |-> <<>>, ret |-> <<>>, done |-> TRUE]

NoPort == -1         \* self._host_port: int = -1

\* An instance that has not been constructed.
Absent ==
  [state |-> "absent", exc |-> "none",
   ports |-> [r \in LockIds |-> NoPort],
   lock_ports |-> [r \in LockIds |-> NoLock],
   held |-> [r \in LockIds |-> FALSE]]

\* Only the instance of the lifecycle is followed.
NoInstances == <<>>

\* The batch script is not run.
NoBatch ==
  [phase |-> "none", total |-> 0, idx |-> 1, skip_push |-> FALSE,
   successful |-> <<>>, failed |-> <<>>, exit_status |-> 0,
   exited_in |-> "none"]

\* ------------------------------------------------------------ construction
\* The outcomes of the four _allocate_port calls tried: which of them came
\* back with a PortLock (the others took the lock-less fallback). All four
\* locked, and a mix in which the host port and one app port are lock-less.
LockConfigs == {LockIds, {VscodeLock, AppLock(1)}}

\* __init__: every port is allocated, each with a PortLock or, from the
\* lock-less fallback of _allocate_port, with None.
Init ==
  /\ runtime_status = "NOT_STARTED"
  /\ attach_to_existing \in BOOLEAN
  /\ init_timeout \in 0..MaxTimeout
  /\ log_dir \in BOOLEAN
  /\ server_process = NoProcess
  /\ procs = <<>>
  /\ log_thread = FALSE
  /\ log_file_handle = FALSE
  /\ open_log_files = 0
  /\ \E locked \in LockConfigs :
       /\ host_port_lock = IF HostLock \in locked THEN HostLock ELSE NoLock
       /\ vscode_port_lock = IF VscodeLock \in locked THEN VscodeLock ELSE NoLock
       /\ app_port_locks = [i \in 1..NumAppRanges |->
                              IF AppLock(i) \in locked THEN AppLock(i) ELSE NoLock]
       /\ lock_held = [l \in LockIds |-> l \in locked]
  /\ release_calls = [l \in LockIds |-> 0]
  /\ pc = "idle"
  /\ now = 0
  /\ deadline = 0
  /\ last_error = NoError
  /\ checks = 0
  /\ wait_start = 0
  /\ exited_at_start = FALSE
  /\ fully_closed = FALSE
  /\ runtime_initialized = FALSE
  /\ result = Outcome("none", "none", NoError, NoLock)
  /\ call = NoCall
  /\ log_records = <<>>
  /\ batch = NoBatch
  /\ instances = NoInstances
  /\ lock_service = TRUE
  /\ scan_start = 0

\* ----------------------------------------------------------------- connect
\* connect(), first statement: the status is set to STARTING whatever it was.
ConnectStart ==
  /\ pc = "idle"
  /\ Len(procs) < MaxSpawns
  /\ now + init_timeout + MaxCheckDur <= MaxTime
  /\ runtime_status' = "STARTING"
  /\ pc' = "ensure"
  /\ fully_closed' = FALSE
  /\ result' = Outcome("connect", "pending", NoError, NoLock)
  /\ UNCHANGED <<config_vars, proc_vars, lock_vars, now, wait_vars,
                 runtime_initialized>>

\* _start_apptainer_process and _start_log_thread: a new process with a pipe,
\* a log file handle when a log directory is set and open() succeeds, and a
\* relay thread. The fields are overwritten, whatever they held.
StartApptainerProcess(open_ok) ==
  /\ procs' = Append(procs, [state |-> "running", stdout_open |-> TRUE])
  /\ server_process' = Len(procs) + 1
  /\ IF log_dir
       THEN /\ log_file_handle' = open_ok
            /\ open_log_files' = open_log_files + (IF open_ok THEN 1 ELSE 0)
       ELSE UNCHANGED <<log_file_handle, open_log_files>>
  /\ log_thread' = TRUE

\* _ensure_process_started without the attach_to_existing test: the missing
\* process is spawned whatever the mode.
EnsureProcessStarted_NoAttachCheck ==
  /\ pc = "ensure"
  /\ IF Running(server_process)
       THEN /\ pc' = "wait"
            /\ UNCHANGED <<proc_vars, result>>
       ELSE /\ \E open_ok \in BOOLEAN : StartApptainerProcess(open_ok)
            /\ pc' = "wait"
            /\ UNCHANGED result
  /\ UNCHANGED <<runtime_status, config_vars, lock_vars, now, wait_vars,
                 fully_closed, runtime_initialized>>

\* _ensure_process_started without the test for a process that still runs.
EnsureProcessStarted_AlwaysSpawn ==
  /\ pc = "ensure"
  /\ IF attach_to_existing
       THEN /\ pc' = "idle"
            /\ result' = Outcome("connect", "NotFound", NoError, NoLock)
            /\ UNCHANGED proc_vars
       ELSE /\ \E open_ok \in BOOLEAN : StartApptainerProcess(open_ok)
            /\ pc' = "wait"
            /\ UNCHANGED result
  /\ UNCHANGED <<runtime_status, config_vars, lock_vars, now, wait_vars,
                 fully_closed, runtime_initialized>>

\* _ensure_process_started
EnsureProcessStarted ==
  /\ pc = "ensure"
  /\ IF Running(server_process)
       THEN /\ pc' = "wait"
            /\ UNCHANGED <<proc_vars, result>>
       ELSE IF attach_to_existing
         THEN /\ pc' = "idle"
              /\ result' = Outcome("connect", "NotFound", NoError, NoLock)
              /\ UNCHANGED proc_vars
         ELSE /\ \E open_ok \in BOOLEAN : StartApptainerProcess(open_ok)
              /\ pc' = "wait"
              /\ UNCHANGED result
  /\ UNCHANGED <<runtime_status, config_vars, lock_vars, now, wait_vars,
                 fully_closed, runtime_initialized>>

\* The deadline computed without the timeout.
WaitInit_NoTimeout ==
  /\ pc = "wait"
  /\ deadline' = now
  /\ last_error' = NoError
  /\ wait_start' = now
  /\ exited_at_start' = HasExited(server_process)
  /\ checks' = 0
  /\ pc' = "loop"
  /\ UNCHANGED <<runtime_status, config_vars, proc_vars, lock_vars, now,
                 fully_closed, runtime_initialized, result>>

\* _wait_until_alive, before the loop
WaitInit ==
  /\ pc = "wait"
  /\ deadline' = now + init_timeout
  /\ last_error' = NoError
  /\ wait_start' = now
  /\ exited_at_start' = HasExited(server_process)
  /\ checks' = 0
  /\ pc' = "loop"
  /\ UNCHANGED <<runtime_status, config_vars, proc_vars, lock_vars, now,
                 fully_closed, runtime_initialized, result>>

\* The loop without the poll() ahead of the liveness check.
WaitIterate_CheckFirst ==
  /\ pc = "loop"
  /\ IF now < deadline
       THEN /\ pc' = "check"
            /\ UNCHANGED <<result, wait_vars>>
       ELSE /\ pc' = "idle"
            /\ result' = Outcome("connect", "TimedOut", last_error, NoLock)
            /\ WaitLocalsDropped
  /\ UNCHANGED <<runtime_status, config_vars, proc_vars, lock_vars, now,
                 fully_closed, runtime_initialized>>

\* One test of the loop condition and, inside the loop, the poll() that comes
\* before the liveness check; past the deadline, the raise ... from last_error.
WaitIterate ==
  /\ pc = "loop"
  /\ IF now < deadline
       THEN IF Exited(server_process)
              THEN /\ pc' = "idle"
                   /\ result' = Outcome("connect", "ProcessExited", NoError, NoLock)
                   /\ WaitLocalsDropped
              ELSE /\ pc' = "check"
                   /\ UNCHANGED <<result, wait_vars>>
       ELSE /\ pc' = "idle"
            /\ result' = Outcome("connect", "TimedOut", last_error, NoLock)
            /\ WaitLocalsDropped
  /\ UNCHANGED <<runtime_status, config_vars, proc_vars, lock_vars, now,
                 fully_closed, runtime_initialized>>

\* Only the first failure is kept.
KeptError_First(n) == IF last_error = NoError THEN n ELSE last_error

\* The error the except clause keeps: the one of the check just made.
KeptError(n) == n

\* try: check_if_alive(); return / except: last_error = exc. The call takes
\* some time; the server answers only while its process runs.
CheckIfAlive ==
  /\ pc = "check"
  /\ \E d \in 0..MaxCheckDur, ok \in BOOLEAN :
       /\ ok => Running(server_process)
       /\ now' = now + d
       /\ checks' = checks + 1
       /\ IF ok
            THEN /\ pc' = "setup"
                 /\ UNCHANGED last_error
            ELSE /\ pc' = "sleep"
                 /\ last_error' = KeptError(checks + 1)
  /\ UNCHANGED <<runtime_status, config_vars, proc_vars, lock_vars, deadline,
                 wait_start, exited_at_start, fully_closed, runtime_initialized,
                 result>>

\* await asyncio.sleep(1)
Sleep ==
  /\ pc = "sleep"
  /\ now' = now + SleepInterval
  /\ pc' = "loop"
  /\ UNCHANGED <<runtime_status, config_vars, proc_vars, lock_vars, wait_vars,
                 fully_closed, runtime_initialized, result>>

\* connect() with READY set ahead of setup_initial_env.
ConnectFinish_ReadyFirst ==
  /\ pc = "setup"
  /\ pc' = "idle"
  /\ runtime_status' = "READY"
  /\ \E setup_ok \in BOOLEAN :
       IF ~attach_to_existing /\ ~setup_ok
         THEN /\ result' = Outcome("connect", "SetupFailed", NoError, NoLock)
              /\ UNCHANGED runtime_initialized
         ELSE /\ runtime_initialized' = TRUE
              /\ result' = Outcome("connect", "none", NoError, NoLock)
  /\ WaitLocalsDropped
  /\ UNCHANGED <<config_vars, proc_vars, lock_vars, now,
                 fully_closed>>

\* connect(), after the wait: setup_initial_env unless attaching, then READY.
ConnectFinish ==
  /\ pc = "setup"
  /\ pc' = "idle"
  /\ \E setup_ok \in BOOLEAN :
       IF ~attach_to_existing /\ ~setup_ok
         THEN /\ result' = Outcome("connect", "SetupFailed", NoError, NoLock)
              /\ UNCHANGED <<runtime_status, runtime_initialized>>
         ELSE /\ runtime_status' = "READY"
              /\ runtime_initialized' = TRUE
              /\ result' = Outcome("connect", "none", NoError, NoLock)
  /\ WaitLocalsDropped
  /\ UNCHANGED <<config_vars, proc_vars, lock_vars, now,
                 fully_closed>>

\* The supervised process exits on its own.
ProcessExit ==
  /\ \E p \in 1..Len(procs) :
       /\ procs[p].state = "running"
       /\ procs' = [procs EXCEPT ![p].state = "exited"]
  /\ UNCHANGED <<runtime_status, config_vars, server_process, log_thread,
                 log_file_handle, open_log_files, lock_vars, pc, now, wait_vars,
                 fully_closed, runtime_initialized, result>>

\* ------------------------------------------------------------------- close
TermOutcomes == {"graceful", "killed", "kill_timeout"}

\* PortLock.release() on lock l, where the call on lock `failing` raises: a
\* call that returns is counted and leaves the lock not held (on a lock
\* already released it is a no-op), a call that raises leaves all as it was.
PortLockRelease(ls, l, failing) ==
  IF l = failing
    THEN [ls EXCEPT !.raised = l]
    ELSE [ls EXCEPT !.calls[l] = @ + 1, !.held[l] = FALSE]

\* for lock in self._app_port_locks: if lock: lock.release()
RECURSIVE ReleaseAppLocks(_, _, _)
ReleaseAppLocks(ls, i, failing) ==
  IF i > Len(ls.app) \/ ls.raised # NoLock
    THEN ls
    ELSE ReleaseAppLocks(
           IF ls.app[i] # NoLock
             THEN PortLockRelease(ls, ls.app[i], failing)
             ELSE ls,
           i + 1, failing)

\* _release_port_locks: host, vscode, then the app locks, then clear(); an
\* exception from a release() leaves the rest of the method undone.
ReleasePortLocks(failing) ==
  LET ls0 == [host |-> host_port_lock, vscode |-> vscode_port_lock,
              app |-> app_port_locks, held |-> lock_held,
              calls |-> release_calls, raised |-> NoLock]
      h == IF ls0.host # NoLock
             THEN PortLockRelease(ls0, ls0.host, failing)
             ELSE ls0
      ls1 == IF h.raised = NoLock THEN [h EXCEPT !.host = NoLock] ELSE h
      v == IF ls1.raised = NoLock /\ ls1.vscode # NoLock
             THEN PortLockRelease(ls1, ls1.vscode, failing)
             ELSE ls1
      ls2 == IF v.raised = NoLock THEN [v EXCEPT !.vscode = NoLock] ELSE v
      a == ReleaseAppLocks(ls2, 1, failing)
  IN IF a.raised = NoLock THEN [a EXCEPT !.app = <<>>] ELSE a

\* close(), the process part: terminate, wait(10), kill, wait(5) when the
\* process still runs; then the pipe is closed and the field set to None.
\* "kill_timeout": the process outlives the kill and wait(timeout=5) raises.
StopProcess(term) ==
  IF server_process = NoProcess
    THEN [procs |-> procs, server_process |-> NoProcess, raised |-> FALSE]
    ELSE IF Running(server_process) /\ term = "kill_timeout"
      THEN [procs |-> procs, server_process |-> server_process, raised |-> TRUE]
      ELSE [procs |-> [procs EXCEPT ![server_process] =
                         [state |-> "exited", stdout_open |-> FALSE]],
            server_process |-> NoProcess, raised |-> FALSE]

\* What terminate/wait/kill/wait can do to the process close() finds.
TermChoices == IF Running(server_process) THEN TermOutcomes ELSE {"exited"}

\* The locks the instance's fields name, and NoLock: the release() calls that
\* can raise in a close(), or none.
LockRefs ==
  {NoLock, host_port_lock, vscode_port_lock}
    \cup {app_port_locks[i] : i \in 1..Len(app_port_locks)}

\* close(): super().close(), the process, the relay thread, the log file and
\* the port locks, in this order and with nothing guarding one step against
\* the failure of an earlier one.
Close ==
  /\ pc = "idle"
  /\ \A l \in LockIds : release_calls[l] < MaxReleaseCalls
  /\ \E base_ok \in BOOLEAN, term \in TermChoices, failing \in LockRefs :
       LET sp == StopProcess(term)
           rl == ReleasePortLocks(failing)
       IN IF ~base_ok
            THEN /\ result' = Outcome("close", "BaseCloseFailed", NoError, NoLock)
                 /\ UNCHANGED <<proc_vars, lock_vars, fully_closed>>
            ELSE IF sp.raised
              THEN /\ result' = Outcome("close", "TimeoutExpired", NoError, NoLock)
                   /\ UNCHANGED <<proc_vars, lock_vars, fully_closed>>
              ELSE /\ procs' = sp.procs
                   /\ server_process' = sp.server_process
                   /\ log_thread' = FALSE
                   /\ log_file_handle' = FALSE
                   /\ open_log_files' = IF log_file_handle
                                          THEN open_log_files - 1
                                          ELSE open_log_files
                   /\ host_port_lock' = rl.host
                   /\ vscode_port_lock' = rl.vscode
                   /\ app_port_locks' = rl.app
                   /\ lock_held' = rl.held
                   /\ release_calls' = rl.calls
                   /\ IF rl.raised # NoLock
                        THEN /\ result' = Outcome("close", "ReleaseFailed",
                                                  NoError, rl.raised)
                             /\ UNCHANGED fully_closed
                        ELSE /\ result' = Outcome("close", "none", NoError, NoLock)
                             /\ fully_closed' = TRUE
  /\ UNCHANGED <<runtime_status, config_vars, pc, now, wait_vars,
                 runtime_initialized>>

Next ==
  \/ ConnectStart
  \/ EnsureProcessStarted
  \/ WaitInit
  \/ WaitIterate
  \/ CheckIfAlive
  \/ Sleep
  \/ ConnectFinish
  \/ ProcessExit
  \/ Close

Spec == Init /\ [][Next]_vars

\* The event loop resumes the coroutine of connect(): the loop test, the
\* liveness check (which returns or raises, it has its own timeout) and the
\* sleep each take their step once they can. Nothing is promised about when
\* connect() or close() are called or whether the process exits.
FairSpec ==
  Spec /\ WF_vars(WaitIterate) /\ WF_vars(CheckIfAlive) /\ WF_vars(Sleep)

\* ------------------------------------------------------ strings, as Python
\* A str is the sequence of its characters.
\* str.startswith
StartsWith(s, prefix) ==
  Len(s) >= Len(prefix) /\ SubSeq(s, 1, Len(prefix)) = prefix

\* str.endswith
EndsWith(s, suffix) ==
  Len(s) >= Len(suffix)
    /\ SubSeq(s, Len(s) - Len(suffix) + 1, Len(s)) = suffix

\* sub in s
Contains(s, sub) ==
  \E i \in 1..(Len(s) - Len(sub) + 1) : SubSeq(s, i, i + Len(sub) - 1) = sub

DockerScheme == <<"d", "o", "c", "k", "e", "r", ":", "/", "/">>
LibraryScheme == <<"l", "i", "b", "r", "a", "r", "y", ":", "/", "/">>
OrasScheme == <<"o", "r", "a", "s", ":", "/", "/">>
SchemeMark == <<":", "/", "/">>
Slash == <<"/">>
Dot == <<".">>
SifSuffix == <<".", "s", "i", "f">>

\* image is None (both sandbox settings unset)
Missing == <<"None">>

\* The image reference with the docker scheme wanted before the test for a
\* .sif file or a filesystem path.
NormalizeImageReference_PrefixFirst(image) ==
  IF image = Missing \/ image = <<>>
    THEN <<>>
  ELSE IF \/ StartsWith(image, DockerScheme)
          \/ StartsWith(image, LibraryScheme)
          \/ StartsWith(image, OrasScheme)
    THEN image
  ELSE IF ~Contains(image, SchemeMark) /\ Contains(image, Slash)
    THEN DockerScheme \o image
  ELSE image

\* _normalize_image_reference
NormalizeImageReference(image) ==
  IF image = Missing \/ image = <<>>
    THEN <<>>
  ELSE IF \/ StartsWith(image, DockerScheme)
          \/ StartsWith(image, LibraryScheme)
          \/ StartsWith(image, OrasScheme)
    THEN image
  ELSE IF \/ EndsWith(image, SifSuffix)
          \/ StartsWith(image, Slash)
          \/ StartsWith(image, Dot)
    THEN image
  ELSE IF ~Contains(image, SchemeMark) /\ Contains(image, Slash)
    THEN DockerScheme \o image
  ELSE image

\* The pieces image references are put together from.
ImageWords ==
  {DockerScheme, LibraryScheme, OrasScheme, SchemeMark, Slash, Dot,
   SifSuffix, <<"a">>, <<":">>}

UserRepoTag ==
  <<"u", "s", "e", "r", "/", "r", "e", "p", "o", ":", "t", "a", "g">>

RECURSIVE WordStrings(_)
\* The strings of at most n pieces.
WordStrings(n) ==
  IF n = 0
    THEN {<<>>}
    ELSE LET shorter == WordStrings(n - 1)
         IN shorter \cup {w \o x : w \in ImageWords, x \in shorter}

\* The image references tried.
ImageInputs == WordStrings(MaxImageWords) \cup {Missing, UserRepoTag}

\* _normalize_image_reference is called and returns.
NormalizeCall ==
  /\ call.fn = "normalize_image_reference" /\ ~call.done
  /\ call' = [call EXCEPT !.ret = NormalizeImageReference(call.arg),
                          !.done = TRUE]
  /\ UNCHANGED <<lifecycle_vars, port_vars, log_records, batch_vars>>

\* ------------------------------------------------------------- bind mounts
RECURSIVE Split(_, _)
\* str.split(sep), sep one character
Split(s, sep) ==
  IF \E i \in 1..Len(s) : s[i] = sep
    THEN LET i == CHOOSE k \in 1..Len(s) :
                    s[k] = sep /\ \A j \in 1..(k - 1) : s[j] # sep
         IN <<SubSeq(s, 1, i - 1)>> \o Split(SubSeq(s, i + 1, Len(s)), sep)
    ELSE <<s>>

RECURSIVE Strip(_)
\* str.strip()
Strip(s) ==
  IF s = <<>> THEN s
  ELSE IF Head(s) = " " THEN Strip(Tail(s))
  ELSE IF s[Len(s)] = " " THEN Strip(SubSeq(s, 1, Len(s) - 1))
  ELSE s

RECURSIVE Join(_, _)
\* sep.join(pieces)
Join(pieces, sep) ==
  IF pieces = <<>> THEN <<>>
  ELSE IF Len(pieces) = 1 THEN pieces[1]
  ELSE pieces[1] \o sep \o Join(Tail(pieces), sep)

Colon == <<":">>
Comma == <<",">>
Blank == <<" ">>
Overlay == <<"o", "v", "e", "r", "l", "a", "y">>
ReadWrite == <<"r", "w">>
ReadOnly == <<"r", "o">>
Cwd == <<"/", "w", "d">>               \* os.getcwd()
HostAbs == <<"/", "h">>
HostRel == <<"h">>
ContainerPath == <<"/", "c">>
WorkspaceMountPath == <<"/", "w", "s">>          \* config.workspace_mount_path
WorkspaceInSandbox == <<"/", "w", "o", "r", "k">>
                                  \* config.workspace_mount_path_in_sandbox

\* os.path.abspath, of a path with nothing to normalise in it
Abspath(path) ==
  IF StartsWith(path, Slash) THEN path
  ELSE IF path = <<>> THEN Cwd
  ELSE Cwd \o Slash \o path

\* The loop body with an overlay mount bound read-write instead of skipped.
MountBind_OverlayAsRw(mount) ==
  LET parts == Split(mount, ":")
  IN IF Len(parts) < 2
       THEN [binds |-> <<>>, warnings |-> <<>>]
       ELSE LET host_path == Abspath(parts[1])
                container_path == parts[2]
                mode == IF Len(parts) > 2 THEN parts[3] ELSE ReadWrite
            IN IF Contains(mode, Overlay)
                 THEN [binds |-> <<host_path \o Colon \o container_path
                                     \o Colon \o ReadWrite>>,
                       warnings |-> <<>>]
                 ELSE [binds |-> <<host_path \o Colon \o container_path
                                     \o Colon \o mode>>,
                       warnings |-> <<>>]

\* _build_bind_args, the body of the loop over the mounts: the bind
\* argument of one mount, if any, and the warning logged, if any.
MountBind(mount) ==
  LET parts == Split(mount, ":")
  IN IF Len(parts) < 2
       THEN [binds |-> <<>>, warnings |-> <<>>]
       ELSE LET host_path == Abspath(parts[1])
                container_path == parts[2]
                mode == IF Len(parts) > 2 THEN parts[3] ELSE ReadWrite
            IN IF Contains(mode, Overlay)
                 THEN [binds |-> <<>>, warnings |-> <<"warning">>]
                 ELSE [binds |-> <<host_path \o Colon \o container_path
                                     \o Colon \o mode>>,
                       warnings |-> <<>>]

RECURSIVE StrippedEntries(_)
\* [entry.strip() for entry in ... if entry.strip()]
StrippedEntries(entries) ==
  IF entries = <<>> THEN <<>>
  ELSE IF Strip(Head(entries)) = <<>> THEN StrippedEntries(Tail(entries))
  ELSE <<Strip(Head(entries))>> \o StrippedEntries(Tail(entries))

RECURSIVE BindMounts(_)
\* for mount in mounts
BindMounts(mounts) ==
  IF mounts = <<>>
    THEN [binds |-> <<>>, warnings |-> <<>>]
    ELSE LET first == MountBind(Head(mounts))
             rest == BindMounts(Tail(mounts))
         IN [binds |-> first.binds \o rest.binds,
             warnings |-> first.warnings \o rest.warnings]

\* _build_bind_args: volumes is sandbox.volumes ("" when unset), workspace
\* tells whether both workspace_mount_path settings are set.
BuildBindArgs(volumes, workspace) ==
  IF volumes # <<>>
    THEN BindMounts(StrippedEntries(Split(volumes, ",")))
  ELSE IF workspace
    THEN [binds |-> <<Abspath(WorkspaceMountPath) \o Colon
                        \o WorkspaceInSandbox \o Colon \o ReadWrite>>,
          warnings |-> <<>>]
  ELSE [binds |-> <<>>, warnings |-> <<>>]

\* The mount entries tried, each as its parts and whether blanks surround
\* it: one part only; host and container (an absolute, a relative and an
\* empty host); a mode that is read-only, overlay, or has overlay in it; a
\* fourth part; an empty entry.
MountShapes ==
  {<<HostAbs>>, <<>>,
   <<HostAbs, ContainerPath, ReadOnly, Overlay>>}
    \cup {<<h, ContainerPath>> : h \in {HostAbs, HostRel, <<>>}}
    \cup {<<h, ContainerPath, m>> :
            h \in {HostAbs, HostRel},
            m \in {ReadOnly, Overlay, Overlay \o ReadOnly}}

MountEntries ==
  {[parts |-> ps, padded |-> FALSE] : ps \in MountShapes}
    \cup {[parts |-> ps, padded |-> TRUE] :
            ps \in {<<HostRel, ContainerPath>>, <<>>}}

\* The text of one entry, and of sandbox.volumes for a list of entries.
EntryText(e) ==
  IF e.padded THEN Blank \o Join(e.parts, Colon) \o Blank
              ELSE Join(e.parts, Colon)

VolumesText(entries) ==
  Join([i \in 1..Len(entries) |-> EntryText(entries[i])], Comma)

\* The mount configurations tried: lists of at most MaxMounts entries.
MountConfigs ==
  UNION {[1..n -> MountEntries] : n \in 0..MaxMounts}

\* _build_bind_args is called and returns; its warnings go to the log.
BuildBindArgsCall ==
  /\ call.fn = "build_bind_args" /\ ~call.done
  /\ LET r == BuildBindArgs(VolumesText(call.arg.entries),
                            call.arg.workspace)
     IN /\ call' = [call EXCEPT !.ret = r.binds, !.done = TRUE]
        /\ log_records' = log_records \o r.warnings
  /\ UNCHANGED <<lifecycle_vars, port_vars, batch_vars>>

\* ---------------------------------------------- the helpers on their own
\* No instance is followed: the variables of the lifecycle are at rest.
NoInstance ==
  /\ runtime_status = "NOT_STARTED"
  /\ attach_to_existing = FALSE
  /\ init_timeout = 0
  /\ log_dir = FALSE
  /\ server_process = NoProcess
  /\ procs = <<>>
  /\ log_thread = FALSE
  /\ log_file_handle = FALSE
  /\ open_log_files = 0
  /\ host_port_lock = NoLock
  /\ vscode_port_lock = NoLock
  /\ app_port_locks = <<>>
  /\ lock_held = [l \in LockIds |-> FALSE]
  /\ release_calls = [l \in LockIds |-> 0]
  /\ pc = "idle"
  /\ now = 0
  /\ deadline = 0
  /\ last_error = NoError
  /\ checks = 0
  /\ wait_start = 0
  /\ exited_at_start = FALSE
  /\ fully_closed = FALSE
  /\ runtime_initialized = FALSE
  /\ result = Outcome("none", "none", NoError, NoLock)

\* One helper is about to be called with one argument.
HelperCalls ==
  {[fn |-> "normalize_image_reference", arg |-> image, ret |-> <<>>,
    done |-> FALSE] : image \in ImageInputs}
    \cup {[fn |-> "build_bind_args",
           arg |-> [entries |-> es, workspace |-> ws],
           ret |-> <<>>, done |-> FALSE] :
            es \in MountConfigs, ws \in BOOLEAN}

HelperInit ==
  /\ NoInstance
  /\ call \in HelperCalls
  /\ log_records = <<>>
  /\ batch = NoBatch
  /\ instances = NoInstances
  /\ lock_service = TRUE
  /\ scan_start = 0

HelperNext ==
  \/ NormalizeCall
  \/ BuildBindArgsCall

HelperSpec == HelperInit /\ [][HelperNext]_vars

\* ------------------------------------------- build_and_push_images.py
\* main() runs from its first statement to its exit. phase: "setup" before
\* the loop, "loop" inside it, "exited" after; idx is the loop's idx, the
\* instances are 1..total; exit_status is the status of the exited process
\* and exited_in the part of main() it exited in.

\* tag_and_push_image: False when tagging raises, when the push reports an
\* error line or raises; True after the tag when skip_push is set.
TagAndPushImage(tag_ok, push_ok, skip_push) ==
  IF ~tag_ok THEN FALSE
  ELSE IF skip_push THEN TRUE
  ELSE push_ok

\* main(), up to the loop: the Docker client and the --slice argument.
BatchSetup ==
  /\ batch.phase = "setup"
  /\ \E docker_ok \in BOOLEAN, slice_ok \in BOOLEAN :
       IF docker_ok /\ slice_ok
         THEN batch' = [batch EXCEPT !.phase = "loop"]
         ELSE batch' = [batch EXCEPT !.phase = "exited", !.exit_status = 1,
                                     !.exited_in = "setup"]
  /\ UNCHANGED <<lifecycle_vars, port_vars, helper_vars>>

\* One iteration in which an exception leaves the loop (no try/except
\* around the body).
ProcessInstance_AbortOnError ==
  /\ batch.phase = "loop"
  /\ batch.idx <= batch.total
  /\ \E lookup_ok \in BOOLEAN, build_ok \in BOOLEAN,
        tag_ok \in BOOLEAN, push_ok \in BOOLEAN :
       IF ~lookup_ok \/ ~build_ok
         THEN batch' = [batch EXCEPT !.phase = "exited", !.exit_status = 1,
                                     !.exited_in = "loop"]
         ELSE IF TagAndPushImage(tag_ok, push_ok, batch.skip_push)
           THEN batch' = [batch EXCEPT
                  !.successful = Append(@, batch.idx),
                  !.idx = @ + 1]
           ELSE batch' = [batch EXCEPT
                  !.failed = Append(@, [instance_id |-> batch.idx,
                                        error |-> "Push failed"]),
                  !.idx = @ + 1]
  /\ UNCHANGED <<lifecycle_vars, port_vars, helper_vars>>

\* main(), one iteration of the loop over the instances.
ProcessInstance ==
  /\ batch.phase = "loop"
  /\ batch.idx <= batch.total
  /\ \E lookup_ok \in BOOLEAN, build_ok \in BOOLEAN,
        tag_ok \in BOOLEAN, push_ok \in BOOLEAN :
       IF ~lookup_ok
         THEN batch' = [batch EXCEPT
                !.failed = Append(@, [instance_id |-> batch.idx,
                                      error |-> "lookup"]),
                !.idx = @ + 1]
       ELSE IF ~build_ok
         THEN batch' = [batch EXCEPT
                !.failed = Append(@, [instance_id |-> batch.idx,
                                      error |-> "build"]),
                !.idx = @ + 1]
       ELSE IF TagAndPushImage(tag_ok, push_ok, batch.skip_push)
         THEN batch' = [batch EXCEPT
                !.successful = Append(@, batch.idx),
                !.idx = @ + 1]
         ELSE batch' = [batch EXCEPT
                !.failed = Append(@, [instance_id |-> batch.idx,
                                      error |-> "Push failed"]),
                !.idx = @ + 1]
  /\ UNCHANGED <<lifecycle_vars, port_vars, helper_vars>>

\* main(), after the loop: the summary, and sys.exit(1) if failed.
BatchFinish ==
  /\ batch.phase = "loop"
  /\ batch.idx > batch.total
  /\ batch' = [batch EXCEPT
       !.phase = "exited",
       !.exited_in = "end",
       !.exit_status = IF batch.failed # <<>> THEN 1 ELSE 0]
  /\ UNCHANGED <<lifecycle_vars, port_vars, helper_vars>>

BatchInit ==
  /\ NoInstance
  /\ call = NoCall
  /\ log_records = <<>>
  /\ instances = NoInstances
  /\ lock_service = TRUE
  /\ scan_start = 0
  /\ \E total \in 0..MaxBatch, skip_push \in BOOLEAN :
       batch = [phase |-> "setup", total |-> total, idx |-> 1,
                skip_push |-> skip_push, successful |-> <<>>,
                failed |-> <<>>, exit_status |-> 0, exited_in |-> "none"]

BatchNext ==
  \/ BatchSetup
  \/ ProcessInstance
  \/ BatchFinish

BatchSpec == BatchInit /\ [][BatchNext]_vars

\* ------------------------------------------- instances sharing one host
\* Several instances are constructed and closed on one host. Each has its
\* four ports (indexed like its locks: host, vscode, app 1, app 2), the
\* PortLock that came with each port (lock_ports: the port the lock is tied
\* to, NoLock for None) and whether that lock is held. state is "absent"
\* before __init__, "live" after it returned, "failed" after it raised,
\* "closed" after a close() that returned.
InstanceIds == 1..MaxInstances

\* EXECUTION_SERVER_PORT_RANGE, VSCODE_PORT_RANGE, APP_PORT_RANGE_1 and _2,
\* each cut down to its first RangeSize ports.
RangeMin(r) ==
  CASE r = HostLock -> 30000
    [] r = VscodeLock -> 40000
    [] r = AppLock(1) -> 50000
    [] OTHER -> 55000

PortRange(r) == RangeMin(r)..(RangeMin(r) + RangeSize - 1)

\* Some instance holds the lock tied to port p.
Locked(p) ==
  \E i \in InstanceIds, r \in LockIds :
    instances[i].held[r] /\ instances[i].lock_ports[r] = p

\* The ports of a range in the order the host's searches try them.
ScanOrder(r) ==
  [k \in 1..RangeSize |-> RangeMin(r) + ((scan_start + k - 1) % RangeSize)]

\* find_available_port_with_lock: the first port tried whose lock nobody
\* holds, with its lock now held; the empty set stands for None.
FindAvailablePortWithLock(r) ==
  LET free == {k \in 1..RangeSize : ~Locked(ScanOrder(r)[k])}
  IN IF lock_service /\ free # {}
       THEN LET k == CHOOSE n \in free : \A m \in free : n <= m
            IN {[port |-> ScanOrder(r)[k], lock |-> ScanOrder(r)[k]]}
       ELSE {}

\* find_available_tcp_port: the first port tried that nothing listens on
\* (no instance of this model has started its server).
FindAvailableTcpPort(r) == {ScanOrder(r)[1]}

\* _allocate_port with the lock-less scan tried first.
AllocatePort_ScanFirst(r) ==
  {[port |-> p, lock |-> NoLock] : p \in FindAvailableTcpPort(r)}

\* _allocate_port returning the first port of the range with the lock.
AllocatePort_FirstPort(r) ==
  LET locked == FindAvailablePortWithLock(r)
  IN IF locked # {}
       THEN {[port |-> RangeMin(r), lock |-> x.lock] : x \in locked}
       ELSE {[port |-> p, lock |-> NoLock] : p \in FindAvailableTcpPort(r)}

\* _allocate_port: the (port, lock) results it can return.
AllocatePort(r) ==
  LET locked == FindAvailablePortWithLock(r)
  IN IF locked # {}
       THEN locked
       ELSE {[port |-> p, lock |-> NoLock] : p \in FindAvailableTcpPort(r)}

\* _detect_apptainer_executable: "" stands for the FileNotFoundError.
DetectApptainerExecutable(candidate, apptainer, singularity) ==
  IF candidate THEN "candidate"
  ELSE IF apptainer THEN "apptainer"
  ELSE IF singularity THEN "singularity"
  ELSE ""

\* The image settings tried by the constructions.
ConstructImages == {Missing, <<>>, UserRepoTag}

\* An instance whose __init__ raised before it allocated a port.
Rejected(exc) == [Absent EXCEPT !.state = "failed", !.exc = exc]

\* An instance whose __init__ got its four ports.
Allocated(h, v, a1, a2, base_ok) ==
  LET got == <<h, v, a1, a2>>
  IN [state |-> IF base_ok THEN "live" ELSE "failed",
      exc |-> IF base_ok THEN "none" ELSE "BaseInitFailed",
      ports |-> [r \in LockIds |-> got[r].port],
      lock_ports |-> [r \in LockIds |-> got[r].lock],
      held |-> [r \in LockIds |-> got[r].lock # NoLock]]

\* __init__ with the ports allocated before the executable and the image
\* are looked at.
Construct_AllocateFirst(i) ==
  /\ instances[i].state = "absent"
  /\ \E candidate \in BOOLEAN, apptainer \in BOOLEAN, singularity \in BOOLEAN,
        image \in ConstructImages, base_ok \in BOOLEAN,
        h \in AllocatePort(HostLock), v \in AllocatePort(VscodeLock),
        a1 \in AllocatePort(AppLock(1)), a2 \in AllocatePort(AppLock(2)) :
       LET got == Allocated(h, v, a1, a2, base_ok)
       IN instances' = [instances EXCEPT ![i] =
            IF DetectApptainerExecutable(candidate, apptainer, singularity) = ""
              THEN [got EXCEPT !.state = "failed", !.exc = "FileNotFoundError"]
            ELSE IF NormalizeImageReference(image) = <<>>
              THEN [got EXCEPT !.state = "failed", !.exc = "ValueError"]
            ELSE got]
  /\ UNCHANGED <<lifecycle_vars, helper_vars, batch_vars, lock_service,
                 scan_start>>

\* __init__: the executable, the image, the four ports, then the base
\* class's __init__, which may raise.
Construct(i) ==
  /\ instances[i].state = "absent"
  /\ \E candidate \in BOOLEAN, apptainer \in BOOLEAN, singularity \in BOOLEAN,
        image \in ConstructImages, base_ok \in BOOLEAN,
        h \in AllocatePort(HostLock), v \in AllocatePort(VscodeLock),
        a1 \in AllocatePort(AppLock(1)), a2 \in AllocatePort(AppLock(2)) :
       instances' = [instances EXCEPT ![i] =
         IF DetectApptainerExecutable(candidate, apptainer, singularity) = ""
           THEN Rejected("FileNotFoundError")
         ELSE IF NormalizeImageReference(image) = <<>>
           THEN Rejected("ValueError")
         ELSE Allocated(h, v, a1, a2, base_ok)]
  /\ UNCHANGED <<lifecycle_vars, helper_vars, batch_vars, lock_service,
                 scan_start>>

RECURSIVE ReleaseFrom(_, _, _)
\* _release_port_locks of one of the instances, from lock r on: each lock
\* the fields name is released in turn and its field set to None (the app
\* locks' list is cleared after the last); nothing more happens once a
\* release() has raised.
ReleaseFrom(inst, r, failing) ==
  IF r > AppLock(NumAppRanges)
    THEN [inst EXCEPT
            !.lock_ports = [l \in LockIds |->
                              IF l > VscodeLock THEN NoLock ELSE @[l]]]
  ELSE IF inst.lock_ports[r] = NoLock
    THEN ReleaseFrom(inst, r + 1, failing)
  ELSE IF r = failing
    THEN [inst EXCEPT !.exc = "ReleaseFailed"]
  ELSE ReleaseFrom(
         [inst EXCEPT !.held[r] = FALSE,
                      !.lock_ports[r] = IF r > VscodeLock THEN @ ELSE NoLock],
         r + 1, failing)

\* The release() call that raises in a close() of these instances: that of
\* the last app lock, after every other lock was released, or none.
ReleaseFailures == {NoLock, AppLock(NumAppRanges)}

\* close() of an instance on which connect() was never called: the base
\* class's close(), which may raise, then the port locks.
CloseInstance(i) ==
  /\ instances[i].state = "live"
  /\ \E base_ok \in BOOLEAN, failing \in ReleaseFailures :
       IF ~base_ok
         THEN UNCHANGED instances
         ELSE LET after == ReleaseFrom(instances[i], HostLock, failing)
              IN instances' = [instances EXCEPT ![i] =
                   IF after.exc = "none"
                     THEN [after EXCEPT !.state = "closed"]
                     ELSE [after EXCEPT !.exc = "none"]]
  /\ UNCHANGED <<lifecycle_vars, helper_vars, batch_vars, lock_service,
                 scan_start>>

PortInit ==
  /\ NoInstance
  /\ call = NoCall
  /\ log_records = <<>>
  /\ batch = NoBatch
  /\ instances = [i \in InstanceIds |-> Absent]
  /\ lock_service \in BOOLEAN
  /\ scan_start \in 0..(RangeSize - 1)

PortNext ==
  \/ \E i \in InstanceIds : Construct(i)
  \/ \E i \in InstanceIds : CloseInstance(i)

PortSpec == PortInit /\ [][PortNext]_vars

\* ---------------------------------------------------------------- claims
AllLocksReleased == \A l \in LockIds : ~lock_held[l]

\* C1: every execution of close() ends with no port lock held, also when an
\* earlier step of close() failed (the base-class close raised, or the wait
\* after the force-kill timed out).
C1_CloseReleasesEveryLock ==
  (result.op = "close"
     /\ result.exc \in {"none", "BaseCloseFailed", "TimeoutExpired"})
    => AllLocksReleased

\* C2: when connect() has raised (attach-only rejection, process exited, or
\* readiness deadline elapsed), the instance has no live supervised process
\* and holds no port lock.
C2_FailedConnectCleansUp ==
  (result.op = "connect"
     /\ result.exc \in {"NotFound", "ProcessExited", "TimedOut"})
    => (~Running(server_process) /\ AllLocksReleased)

\* C3: close() is idempotent: over any sequence of connect() and close()
\* calls, also after a close() that failed partway, no port lock is released
\* twice (release() returns at most once per lock).
C3_LockReleasedOnce == \A l \in LockIds : release_calls[l] <= 1

\* C4: when the release of one lock raises during close(), every other held
\* lock is still released.
C4_ReleasesIndependent ==
  (result.op = "close" /\ result.exc = "ReleaseFailed")
    => \A l \in LockIds \ {result.lock} : ~lock_held[l]

\* C5: in every reachable state an instance whose status is READY has a
\* process handle whose process is still running.
C5_ReadyHasLiveProcess ==
  runtime_status = "READY" => Running(server_process)

\* C6: once the status is READY it does not go back to STARTING or NOT_STARTED
\* unless a close() has completed in between.
C6_StatusOnlyForward ==
  [][(runtime_status = "READY" /\ ~fully_closed)
       => runtime_status' = "READY"]_vars

\* C7: in every iteration of the readiness wait the process-exit check comes
\* first: if the process has exited when an iteration begins, the wait fails
\* at once with the process-exited error, with no liveness check, no sleep
\* and no retry.
C7_ExitCheckedBeforeLiveness ==
  [][(pc = "loop" /\ now < deadline /\ HasExited(server_process))
       => /\ pc' = "idle"
          /\ result'.exc = "ProcessExited"
          /\ result'.checks = checks
          /\ now' = now]_vars

\* C7 witness: the wait ended with the process-exited error at the start of a
\* later iteration, after liveness checks that failed.
C7_Witness ==
  result.op = "connect" /\ result.exc = "ProcessExited" /\ result.checks >= 1

\* C8 as stated: for every configured timeout, a wait that begins with the
\* process already exited fails with the process-exited error, strictly
\* before the timeout has elapsed.
C8_ExitBeatsTimeout_Original ==
  (result.op = "connect" /\ result.exc # "pending" /\ result.exited_at_start)
    => (result.exc = "ProcessExited" /\ result.elapsed < init_timeout)

\* C8 amended: the same for every configured timeout greater than zero.
C8_ExitBeatsTimeout ==
  (result.op = "connect" /\ result.exc # "pending" /\ result.exited_at_start
     /\ init_timeout > 0)
    => (result.exc = "ProcessExited" /\ result.elapsed < init_timeout)

\* C8 witness: a positive timeout, and a wait that found its process exited
\* when it began and failed with the process-exited error.
C8_Witness ==
  /\ result.op = "connect" /\ result.exc = "ProcessExited"
  /\ result.exited_at_start /\ init_timeout > 0

\* A timeout failure comes no earlier than the timeout after the wait began,
\* and a process-exited failure only for a process that has exited.
WaitFailureJustified ==
  result.op = "connect"
    => /\ result.exc = "TimedOut" => result.elapsed >= init_timeout
       /\ result.exc = "ProcessExited" => HasExited(server_process)

\* C9: every readiness wait ends, with a liveness success or with a failure;
\* while the process stays alive the failure can only be the timeout error,
\* and a timeout failure is never reported before the configured timeout has
\* elapsed since the wait began.
C9_TimeoutNotEarly ==
  /\ []WaitFailureJustified
  /\ (pc = "loop")
       ~> (pc = "setup"
             \/ (pc = "idle" /\ result.exc \in {"ProcessExited", "TimedOut"}))

\* C9 witness: the process is alive, liveness checks failed, and the wait
\* ended with the timeout error.
C9_Witness ==
  /\ result.op = "connect" /\ result.exc = "TimedOut"
  /\ result.checks >= 1 /\ Running(server_process) /\ init_timeout > 0

\* C10 as stated: for every timeout, the timeout error carries a cause, the
\* failure of the most recent liveness check.
C10_TimeoutHasCause_Original ==
  (result.op = "connect" /\ result.exc = "TimedOut")
    => (result.cause # NoError /\ result.cause = result.checks)

\* C10 amended: the timeout error carries as its cause the failure of the
\* most recent liveness check when the wait made one, and no cause when the
\* deadline had passed before the first check.
C10_TimeoutCauseIsLastFailure ==
  (result.op = "connect" /\ result.exc = "TimedOut")
    => /\ result.checks > 0 => result.cause = result.checks
       /\ result.checks = 0 => result.cause = NoError

\* C10 witness: a timeout after two or more failed checks, so that the last
\* failure differs from the first.
C10_Witness ==
  /\ result.op = "connect" /\ result.exc = "TimedOut" /\ result.checks >= 2

\* C11: on an instance created in attach-to-existing mode, every connect()
\* fails with the not-found error before a process is spawned and before a
\* liveness check is made; over any sequence of connect() calls the instance
\* never spawns a process, never enters the readiness wait and never becomes
\* READY.
C11_AttachNeverSpawns ==
  attach_to_existing
    => /\ procs = <<>>
       /\ server_process = NoProcess
       /\ runtime_status # "READY"
       /\ pc \in {"idle", "ensure"}
       /\ checks = 0
       /\ (result.op = "connect" /\ result.exc # "pending")
            => (result.exc = "NotFound" /\ result.checks = 0)

\* C11 witness: an attach-to-existing instance whose connect() has failed
\* with the not-found error.
C11_Witness ==
  /\ attach_to_existing
  /\ result.op = "connect" /\ result.exc = "NotFound"

\* C13 as stated: a close() on an instance on which connect() was never
\* called performs no process operation and leaves no port lock held.
C13_CloseBeforeConnect ==
  (runtime_status = "NOT_STARTED" /\ result.op = "close")
    => /\ procs = <<>> /\ server_process = NoProcess
       /\ AllLocksReleased

\* C17 as stated: a close() that got to stopping the process has, whatever
\* the termination outcome (the wait after the force-kill timing out
\* included), closed the captured output stream of the process and joined the
\* log-relay thread.
C17_StopClosesStreamAndJoins ==
  (result.op = "close"
     /\ result.exc \in {"none", "ReleaseFailed", "TimeoutExpired"})
    => /\ ~log_thread
       /\ server_process # NoProcess => ~procs[server_process].stdout_open

RECURSIVE ExpectedBinds(_)
\* The bind arguments a list of mount entries stands for: of each entry with
\* a host and a container part and no overlay in its mode, the host made
\* absolute, the container path and the mode, "rw" when the entry has none.
ExpectedBinds(entries) ==
  IF entries = <<>>
    THEN <<>>
    ELSE LET ps == Head(entries).parts
             overlay == Len(ps) >= 3 /\ Contains(ps[3], Overlay)
             mode == IF Len(ps) >= 3 THEN ps[3] ELSE ReadWrite
         IN (IF Len(ps) >= 2 /\ ~overlay
               THEN <<Abspath(ps[1]) \o Colon \o ps[2] \o Colon \o mode>>
               ELSE <<>>)
              \o ExpectedBinds(Tail(entries))

\* C18: for every comma-separated mount configuration the bind arguments are
\* exactly, in order, the entries with a host and a container part whose
\* mode has no overlay in it, each as host:container:mode with mode "rw"
\* when the entry has none; an overlay entry yields no bind argument (and so
\* none with mode "rw") but a warning.
C18_BindArgsAreNonOverlayEntries ==
  (call.fn = "build_bind_args" /\ call.done
     /\ VolumesText(call.arg.entries) # <<>>)
    => /\ call.ret = ExpectedBinds(call.arg.entries)
       /\ Len(log_records)
            = Cardinality({i \in 1..Len(call.arg.entries) :
                 LET ps == call.arg.entries[i].parts
                 IN Len(ps) >= 3 /\ Contains(ps[3], Overlay)})

\* C18 witness: an overlay entry followed by an entry without a mode gave
\* exactly one bind argument, that of the second entry with mode "rw".
C18_Witness ==
  /\ call.fn = "build_bind_args" /\ call.done
  /\ call.arg.entries
       = <<[parts |-> <<HostAbs, ContainerPath, Overlay>>, padded |-> FALSE],
           [parts |-> <<HostRel, ContainerPath>>, padded |-> TRUE]>>
  /\ call.ret = <<Cwd \o Slash \o HostRel \o Colon \o ContainerPath
                    \o Colon \o ReadWrite>>

\* C19: image normalization follows its rules in order: an empty or missing
\* reference gives the empty string; one that begins with docker://,
\* library:// or oras:// is unchanged; one that ends in .sif or is written
\* as a filesystem path (it begins with "/" or with ".") is unchanged;
\* otherwise one with a "/" and no "://" gets docker:// in front; any other
\* is unchanged. user/repo:tag becomes docker://user/repo:tag.
C19_NormalizationRules ==
  (call.fn = "normalize_image_reference" /\ call.done)
    => LET image == call.arg
           out == call.ret
           empty == image \in {Missing, <<>>}
           schemed == \E scheme \in {DockerScheme, LibraryScheme, OrasScheme} :
                        StartsWith(image, scheme)
           file == \/ EndsWith(image, SifSuffix)
                   \/ StartsWith(image, Slash)
                   \/ StartsWith(image, Dot)
           repository == Contains(image, Slash) /\ ~Contains(image, SchemeMark)
       IN /\ empty => out = <<>>
          /\ (~empty /\ schemed) => out = image
          /\ (~empty /\ ~schemed /\ file) => out = image
          /\ (~empty /\ ~schemed /\ ~file /\ repository)
               => out = DockerScheme \o image
          /\ (~empty /\ ~schemed /\ ~file /\ ~repository) => out = image
          /\ image = UserRepoTag => out = DockerScheme \o UserRepoTag

\* C19 witness: user/repo:tag was normalized to docker://user/repo:tag.
C19_Witness ==
  /\ call.fn = "normalize_image_reference" /\ call.done
  /\ call.arg = UserRepoTag
  /\ call.ret = DockerScheme \o UserRepoTag

\* The instances the loop has put in a list.
Listed(b) ==
  [successful |-> {b.successful[i] : i \in 1..Len(b.successful)},
   failed |-> {b.failed[i].instance_id : i \in 1..Len(b.failed)}]

\* C20: in the batch loop the failure of one instance (base-image lookup,
\* build, tag or push) does not stop the others: when the program has exited
\* after entering the loop every selected instance is in exactly one of the
\* successful and failed lists, the two sizes add up to the number of
\* instances, and the exit status is an error exactly when the failed list
\* is not empty.
C20_BatchProcessesEveryInstance ==
  (batch.phase = "exited" /\ batch.exited_in # "setup")
    => /\ Listed(batch).successful \cup Listed(batch).failed
            = 1..batch.total
       /\ Listed(batch).successful \cap Listed(batch).failed = {}
       /\ Len(batch.successful) + Len(batch.failed) = batch.total
       /\ (batch.exit_status # 0) <=> (batch.failed # <<>>)

\* C20 witness: a run has exited in which an early instance failed and later
\* ones were still processed, one of them with success.
C20_Witness ==
  /\ batch.phase = "exited" /\ batch.exited_in = "end"
  /\ batch.total >= 3
  /\ Len(batch.failed) >= 2 /\ batch.failed[1].instance_id = 1
  /\ batch.failed[1].error # batch.failed[2].error
  /\ batch.successful # <<>>
  /\ batch.exit_status = 1

\* Instance i has port r from the lock-backed path and holds its lock.
LockBacked(i, r) ==
  instances[i].lock_ports[r] # NoLock /\ instances[i].held[r]

\* The step is a construction of instance i that got to allocating ports.
Allocates(i) ==
  /\ instances[i].state = "absent"
  /\ instances'[i].ports[HostLock] # NoPort

\* C12: a configuration error at construction (no container executable
\* found, or an image reference that is empty after normalization) is raised
\* before any port is allocated: the instance has no port, no PortLock and
\* holds no lock.
C12_ConfigErrorBeforeAllocation ==
  \A i \in DOMAIN instances :
    (instances[i].state = "failed"
       /\ instances[i].exc \in {"FileNotFoundError", "ValueError"})
      => \A r \in LockIds :
           /\ instances[i].ports[r] = NoPort
           /\ instances[i].lock_ports[r] = NoLock
           /\ ~instances[i].held[r]

\* C12 witness: one construction has failed for the executable and one for
\* the image, next to an instance that holds the first port of the host
\* range under lock.
C12_Witness ==
  \E i, j, k \in DOMAIN instances :
    /\ instances[i].state = "failed" /\ instances[i].exc = "FileNotFoundError"
    /\ instances[j].state = "failed" /\ instances[j].exc = "ValueError"
    /\ instances[k].state = "live" /\ LockBacked(k, HostLock)

\* C14: for any interleaving of constructions and closes of several
\* instances on one host, no port is held under lock by two live instances
\* at once.
C14_LockedPortsDistinct ==
  \A i, j \in DOMAIN instances :
    (i # j /\ instances[i].state = "live" /\ instances[j].state = "live")
      => \A r, q \in LockIds :
           (LockBacked(i, r) /\ LockBacked(j, q))
             => instances[i].ports[r] # instances[j].ports[q]

\* C14 witness: two live instances hold different ports of the host range
\* under lock, one of them the port a closed instance had held before.
C14_Witness ==
  \E i, j, k \in DOMAIN instances :
    /\ i # j
    /\ instances[i].state = "live" /\ LockBacked(i, HostLock)
    /\ instances[j].state = "live" /\ LockBacked(j, HostLock)
    /\ instances[i].ports[HostLock] # instances[j].ports[HostLock]
    /\ instances[k].state = "closed"
    /\ instances[k].ports[HostLock] = instances[j].ports[HostLock]

\* C15: a port allocation returns the (port, lock) of the lock-backed path
\* unchanged whenever that path yields one; only when it yields none does
\* the allocation fall back to the lock-less scan, and then it returns a port
\* of the same range with no lock instead of failing. So allocations made
\* while a port of the range is unlocked get different ports, and one made
\* while every port of the range is locked is lock-less.
C15_LockPathFirst ==
  [][\A i \in DOMAIN instances :
       Allocates(i)
         => \A r \in LockIds :
              LET offered == FindAvailablePortWithLock(r)
                  got == [port |-> instances'[i].ports[r],
                          lock |-> instances'[i].lock_ports[r]]
              IN IF offered # {}
                   THEN got \in offered
                   ELSE got.lock = NoLock /\ got.port \in PortRange(r)]_vars

\* C15 witness: with locking available, as many instances as the host range
\* has ports hold its ports under lock, all different, and one more instance
\* was constructed meanwhile and has a port of that range with no lock.
C15_Witness ==
  /\ lock_service
  /\ \A p \in PortRange(HostLock) :
       \E i \in DOMAIN instances :
         LockBacked(i, HostLock) /\ instances[i].ports[HostLock] = p
  /\ \E k \in DOMAIN instances :
       /\ instances[k].state = "live"
       /\ instances[k].lock_ports[AppLock(NumAppRanges)] = NoLock
       /\ instances[k].lock_ports[HostLock] = NoLock
       /\ instances[k].ports[HostLock] \in PortRange(HostLock)

\* C16 as stated: every allocation that takes the lock-less fallback writes
\* a log record that marks it as degraded.
C16_FallbackIsLogged ==
  [][\A i \in DOMAIN instances :
       (Allocates(i)
          /\ \E r \in LockIds : instances'[i].lock_ports[r] = NoLock)
         => \E k \in (Len(log_records) + 1)..Len(log_records') :
              log_records'[k] = "degraded"]_vars

\* The steps of one connect() in the order of its statements: from each
\* position, the positions that can come next.
StepOrder ==
  {<<"idle", "ensure">>, <<"ensure", "wait">>, <<"ensure", "idle">>,
   <<"wait", "loop">>, <<"loop", "check">>, <<"loop", "idle">>,
   <<"check", "setup">>, <<"check", "sleep">>, <<"sleep", "loop">>,
   <<"setup", "idle">>}

\* C21: within one connect() the steps come in the order: status STARTING,
\* process ensured, readiness wait, post-start initialization, status READY.
\* The status stays STARTING until the connect() ends; it becomes READY only
\* in the last step, after a liveness check of this connect() succeeded and
\* the initialization completed; a connect() that failed has not set READY.
C21_ConnectStepOrder ==
  /\ [](pc # "idle" => runtime_status = "STARTING")
  /\ []((result.op = "connect" /\ result.exc \notin {"pending", "none"})
          => runtime_status # "READY")
  /\ [][pc' # pc => <<pc, pc'>> \in StepOrder]_vars
  /\ [][(runtime_status' = "READY" /\ runtime_status # "READY")
          => /\ pc = "setup" /\ pc' = "idle"
             /\ checks >= 1
             /\ server_process # NoProcess
             /\ ~attach_to_existing
             /\ result'.op = "connect" /\ result'.exc = "none"]_vars

\* C21 witness: a connect() has ended with the status READY after a failed
\* and then a successful liveness check.
C21_Witness ==
  /\ result.op = "connect" /\ result.exc = "none"
  /\ runtime_status = "READY" /\ result.checks >= 2

\* C22 as stated: after a connect() that failed fatally (attach-only
\* rejected, process exited before ready, readiness deadline elapsed) the
\* status is DISCONNECTED.
C22_FailedConnectDisconnects ==
  (result.op = "connect"
     /\ result.exc \in {"NotFound", "ProcessExited", "TimedOut"})
    => runtime_status = "DISCONNECTED"

\* The processes of the instance that are running.
LiveProcesses == {p \in 1..Len(procs) : procs[p].state = "running"}

\* C23: over any sequence of connect(), close() and process exits, a process
\* is spawned only inside connect() and only when the instance has no process
\* handle or the process of its handle has exited; the instance never has two
\* running processes at once, and none before its first connect().
C23_SingleLiveProcess ==
  /\ [](Cardinality(LiveProcesses) <= 1)
  /\ [](runtime_status = "NOT_STARTED" => procs = <<>>)
  /\ [][Len(procs') > Len(procs)
          => /\ pc = "ensure"
             /\ server_process = NoProcess \/ HasExited(server_process)
             /\ LiveProcesses = {}]_vars

\* C23 witness: the first process has exited and a later connect() has
\* spawned its replacement, which runs.
C23_Witness ==
  /\ Len(procs) = 2
  /\ procs[1].state = "exited" /\ procs[2].state = "running"
  /\ server_process = 2

\* C24 as stated: the instance never has two open log file handles at once,
\* and when a close() has completed every log file handle opened by a spawn
\* is closed, also when the process died and a second connect() spawned a
\* replacement before the close().
C24_LogHandlesClosed ==
  /\ open_log_files <= 1
  /\ (result.op = "close" /\ result.exc = "none") => open_log_files = 0

\* C25 as stated: a construction that failed after it had acquired a port
\* lock (the base class's __init__ raised) has released the locks it
\* acquired: a failed construction leaves no port lock held.
C25_FailedConstructionHoldsNoLock ==
  \A i \in DOMAIN instances :
    instances[i].state = "failed"
      => \A r \in LockIds : ~instances[i].held[r]

TypeOK ==
  /\ runtime_status \in {"NOT_STARTED", "STARTING", "READY"}
  /\ server_process \in 0..Len(procs)
  /\ open_log_files \in 0..MaxSpawns
  /\ now \in 0..MaxTime

====
